---------------------------- MODULE Spec2Model ----------------------------
(***************************************************************************)
(* A model of the nfl-wins-pool Cloudflare Worker (src/worker/worker.js):  *)
(* the request handler with its TTL cache, and the pure functions it is    *)
(* built from (buildTeamToOwner, buildResponse, the week-grid loop, the    *)
(* week resolver and the win aggregator).                                  *)
(*                                                                         *)
(* Conventions for JavaScript values:                                      *)
(*   - a string that is undefined, null or empty is "" (all are falsy and  *)
(*     the code only ever tests them with || or ?.);                       *)
(*   - a JS object used as a map is a function with a finite domain;       *)
(*   - NaN and JSON null in a numeric position are the reserved integers   *)
(*     NaN and Null;                                                       *)
(*   - times are milliseconds counted from a model epoch, so that they fit *)
(*     TLC's integers.                                                     *)
(***************************************************************************)
EXTENDS Integers, Sequences, FiniteSets, TLC

(***************************************************************************)
(* Bounds of the model.                                                    *)
(***************************************************************************)
MaxOwners == 3
MaxUnowned == 1
MaxWins == 1
MaxEvents == 2
MaxRequests == 2
MaxCalendar == 3
MaxLongCalendar == 20
MaxTicks == 2
TickMs == 900000
StartMs == 900000

(***************************************************************************)
(* Reserved numbers.                                                       *)
(***************************************************************************)
NaN == -1
Null == -2

(***************************************************************************)
(* Small helpers on sequences and maps.                                    *)
(***************************************************************************)
Range(s) == {s[i] : i \in DOMAIN s}

EmptyMap == <<>>

Put(map, k, v) == [x \in (DOMAIN map) \cup {k} |-> IF x = k THEN v ELSE map[x]]

SeqsUpTo(S, n) == UNION {[1..k -> S] : k \in 0..n}

NoDup(s) == \A i, j \in DOMAIN s : i # j => s[i] # s[j]

\* Array.prototype.find, by position: the index of the first TRUE of a
\* sequence of test results, 0 when there is none.
FirstTrue(flags) ==
  IF \E i \in DOMAIN flags : flags[i]
  THEN CHOOSE i \in DOMAIN flags : flags[i] /\ \A j \in 1..(i-1) : ~flags[j]
  ELSE 0

(***************************************************************************)
(* NAME_TO_ABBR, worker.js lines 28-34.                                    *)
(***************************************************************************)
NAME_TO_ABBR ==
  ("49ers" :> "SF") @@ ("Bears" :> "CHI") @@ ("Bengals" :> "CIN") @@ ("Bills" :> "BUF") @@
  ("Broncos" :> "DEN") @@ ("Browns" :> "CLE") @@ ("Buccaneers" :> "TB") @@
  ("Cardinals" :> "ARI") @@ ("Chargers" :> "LAC") @@ ("Chiefs" :> "KC") @@
  ("Colts" :> "IND") @@ ("Commanders" :> "WSH") @@ ("Cowboys" :> "DAL") @@
  ("Dolphins" :> "MIA") @@ ("Eagles" :> "PHI") @@ ("Falcons" :> "ATL") @@
  ("Giants" :> "NYG") @@ ("Jaguars" :> "JAX") @@ ("Jets" :> "NYJ") @@ ("Lions" :> "DET") @@
  ("Packers" :> "GB") @@ ("Panthers" :> "CAR") @@ ("Patriots" :> "NE") @@
  ("Raiders" :> "LV") @@ ("Rams" :> "LAR") @@ ("Ravens" :> "BAL") @@ ("Saints" :> "NO") @@
  ("Seahawks" :> "SEA") @@ ("Steelers" :> "PIT") @@ ("Texans" :> "HOU") @@
  ("Titans" :> "TEN") @@ ("Vikings" :> "MIN")

\* NAME_TO_ABBR[t] || t   (lines 161 and 170)
AbbrOf(t) == IF t \in DOMAIN NAME_TO_ABBR THEN NAME_TO_ABBR[t] ELSE t

(***************************************************************************)
(* String.prototype.localeCompare on the names of the model: the names     *)
(* are ranked as the runtime's collation ranks them (letters first, case   *)
(* only as a tie-break, so "bob" sorts between "Alice" and "Carol", where  *)
(* a comparison of code units would put it last).                          *)
(***************************************************************************)
CollationRank ==
  ("Alice" :> 1) @@ ("Bears" :> 2) @@ ("bob" :> 3) @@ ("Carol" :> 4) @@
  ("Lions" :> 5) @@ ("Ravens" :> 6) @@ ("Sharks" :> 7) @@ ("" :> 0)

localeCompare(a, b) ==
  IF CollationRank[a] < CollationRank[b] THEN -1
  ELSE IF CollationRank[a] > CollationRank[b] THEN 1 ELSE 0

(***************************************************************************)
(* buildTeamToOwner, worker.js lines 42-51.                                *)
(* config.owners is a sequence of [owner, teams] in the order of           *)
(* Object.entries; config.unowned is a sequence (empty when absent).       *)
(***************************************************************************)
RECURSIVE AssignRoster(_, _, _)
AssignRoster(map, owner, teams) ==
  IF teams = <<>> THEN map
  ELSE AssignRoster(Put(map, Head(teams), owner), owner, Tail(teams))

RECURSIVE AssignOwners(_, _)
AssignOwners(map, owners) ==
  IF owners = <<>> THEN map
  ELSE AssignOwners(AssignRoster(map, Head(owners).owner, Head(owners).teams), Tail(owners))

RECURSIVE FillUnowned(_, _)
FillUnowned(map, teams) ==
  IF teams = <<>> THEN map
  ELSE FillUnowned(IF Head(teams) \in DOMAIN map THEN map
                   ELSE Put(map, Head(teams), "Unowned"),
                   Tail(teams))

\* A plausible slip: the fallback loop assigns without the (t in map) test.
RECURSIVE FillUnownedOverwriting(_, _)
FillUnownedOverwriting(map, teams) ==
  IF teams = <<>> THEN map
  ELSE FillUnownedOverwriting(Put(map, Head(teams), "Unowned"), Tail(teams))

buildTeamToOwnerOverwriting(config) ==
  FillUnownedOverwriting(AssignOwners(EmptyMap, config.owners), config.unowned)

buildTeamToOwner(config) ==
  FillUnowned(AssignOwners(EmptyMap, config.owners), config.unowned)

\* teamToOwner[name] || "-"   (lines 92, 93, 97)
OwnerOrDash(teamToOwner, name) ==
  IF name \in DOMAIN teamToOwner /\ teamToOwner[name] # "" THEN teamToOwner[name] ELSE "-"

(***************************************************************************)
(* buildResponse, worker.js lines 157-175.                                 *)
(***************************************************************************)
\* winsByAbbr[abbr] ?? 0
WinsOrZero(winsByAbbr, abbr) ==
  IF abbr \in DOMAIN winsByAbbr THEN winsByAbbr[abbr] ELSE 0

\* A plausible slip: the wins looked up under the team name, not its code.
teamRowByName(t, winsByAbbr) ==
  [team |-> t, abbr |-> AbbrOf(t), wins |-> WinsOrZero(winsByAbbr, t)]

teamRow(t, winsByAbbr) ==
  [team |-> t, abbr |-> AbbrOf(t), wins |-> WinsOrZero(winsByAbbr, AbbrOf(t))]

teamRows(teams, winsByAbbr) == [i \in DOMAIN teams |-> teamRow(teams[i], winsByAbbr)]

\* teamRows.reduce((a,b) => a + b.wins, 0)
RECURSIVE sumWins(_)
sumWins(rows) == IF rows = <<>> THEN 0 ELSE Head(rows).wins + sumWins(Tail(rows))

standingsRow(entry, winsByAbbr) ==
  LET rows == teamRows(entry.teams, winsByAbbr)
  IN  [owner |-> entry.owner, total_wins |-> sumWins(rows), teams |-> rows]

\* (a,b) => b.total_wins - a.total_wins || a.owner.localeCompare(b.owner)
\* A plausible slip: the difference taken the other way round (ascending).
compareStandingsAscending(a, b) ==
  IF a.total_wins - b.total_wins # 0 THEN a.total_wins - b.total_wins
  ELSE localeCompare(a.owner, b.owner)

compareStandings(a, b) ==
  IF b.total_wins - a.total_wins # 0 THEN b.total_wins - a.total_wins
  ELSE localeCompare(a.owner, b.owner)

\* Array.prototype.sort is stable: x goes after every element that does not
\* compare greater than it.
RECURSIVE insertStanding(_, _)
insertStanding(sorted, x) ==
  IF sorted = <<>> THEN <<x>>
  ELSE IF compareStandings(Head(sorted), x) <= 0
       THEN <<Head(sorted)>> \o insertStanding(Tail(sorted), x)
       ELSE <<x>> \o sorted

RECURSIVE sortStandings(_)
sortStandings(rows) ==
  IF rows = <<>> THEN <<>>
  ELSE insertStanding(sortStandings(SubSeq(rows, 1, Len(rows) - 1)), rows[Len(rows)])

buildResponse(config, winsByAbbr) ==
  [standings |-> sortStandings([i \in DOMAIN config.owners |->
                                  standingsRow(config.owners[i], winsByAbbr)]),
   unowned   |-> teamRows(config.unowned, winsByAbbr)]

(***************************************************************************)
(* Number(string) and the /^\d+$/ test on the strings of the model.        *)
(***************************************************************************)
NumberOf ==
  ("0" :> 0) @@ ("1" :> 1) @@ ("2" :> 2) @@ ("3" :> 3) @@ ("4" :> 4) @@ ("5" :> 5) @@
  ("6" :> 6) @@ ("7" :> 7) @@ ("8" :> 8) @@ ("9" :> 9) @@ ("10" :> 10) @@ ("11" :> 11) @@
  ("12" :> 12) @@ ("13" :> 13) @@ ("14" :> 14) @@ ("15" :> 15) @@ ("16" :> 16) @@ ("17" :> 17) @@
  ("18" :> 18) @@ ("19" :> 19) @@ ("20" :> 20) @@ ("21" :> 21) @@ ("22" :> 22) @@ ("99" :> 99)

\* String(e.label).match(/^\d+$/)
MatchesDigits(s) == s \in DOMAIN NumberOf

\* Number(s) for a non-empty string s
Number(s) == IF s \in DOMAIN NumberOf THEN NumberOf[s] ELSE NaN

\* a === b on numbers: NaN equals nothing
NumEq(a, b) == a # NaN /\ b # NaN /\ a = b

(***************************************************************************)
(* getRegularSeasonWeekEntries, worker.js lines 53-61, on the fetched root.*)
(* root.shape says where the calendar entries are: "nested" for            *)
(* leagues[0].calendar[0].entries, "flat" for leagues[0].calendar.entries, *)
(* "none" when neither exists; root.weekNumber is root.week.number, 0 when *)
(* absent.                                                                 *)
(***************************************************************************)
RegularSeasonCap == 18

calendarOf(root) == IF root.shape \in {"nested", "flat"} THEN root.entries ELSE <<>>

keepEntry(e) == e.label # "" /\ MatchesDigits(e.label) /\ e.startDate # "" /\ e.endDate # ""

\* A plausible slip: the cap of line 58 left out.
regularEntriesUncapped(root) == SelectSeq(calendarOf(root), keepEntry)

regularEntriesOf(root) ==
  LET kept == SelectSeq(calendarOf(root), keepEntry)
  IN  SubSeq(kept, 1, IF Len(kept) < RegularSeasonCap THEN Len(kept) ELSE RegularSeasonCap)

currentWeekOf(root) == IF root.weekNumber # 0 THEN root.weekNumber ELSE Null

\* e.startDate.slice(0,10).replaceAll("-","") on the dates of the model
CompactDate ==
  ("2025-09-04T07:00Z" :> "20250904") @@ ("2025-09-10T06:59Z" :> "20250910") @@
  ("2025-09-10T07:00Z" :> "20250910") @@ ("2025-09-17T06:59Z" :> "20250917") @@
  ("2025-08-01T07:00Z" :> "20250801") @@ ("2025-08-07T06:59Z" :> "20250807")

\* the query of `${ESPN_SCOREBOARD}?dates=${start}-${end}` (lines 75-77, 137-139)
datesQuery(e) == CompactDate[e.startDate] \o "-" \o CompactDate[e.endDate]

(***************************************************************************)
(* fetchWeekGrid, worker.js lines 68-122, apart from its two fetches.      *)
(***************************************************************************)
\* Number(weekNumber || currentWeek || 1)
weekOf(weekNumber, currentWeek) ==
  IF weekNumber # "" THEN Number(weekNumber)
  ELSE IF currentWeek # Null THEN currentWeek ELSE 1

\* regularEntries.find(e => Number(e.label) === week), as an index (0: none)
findEntry(regularEntries, week) ==
  FirstTrue([i \in DOMAIN regularEntries |-> NumEq(Number(regularEntries[i].label), week)])

\* normalizeTeamName, lines 63-66
normalizeTeamName(team) ==
  IF team.shortDisplayName # "" THEN team.shortDisplayName
  ELSE IF team.name # "" THEN team.name ELSE team.abbreviation

IsAway(c) == c.homeAway = "away"

IsHome(c) == c.homeAway = "home"

IsWinner(c) == c.winner = TRUE

findAway(comps) == FirstTrue([i \in DOMAIN comps |-> IsAway(comps[i])])

findHome(comps) == FirstTrue([i \in DOMAIN comps |-> IsHome(comps[i])])

findWinner(comps) == FirstTrue([i \in DOMAIN comps |-> IsWinner(comps[i])])

\* The rows one event contributes (none or one), lines 83-111.
gameRowsOf(ev, teamToOwner) ==
  IF ev.competitions = <<>> THEN <<>>
  ELSE
    LET comp == ev.competitions[1]
        comps == comp.competitors
        ai == findAway(comps)
        hi == findHome(comps)
        wi == findWinner(comps)
        awayName == normalizeTeamName(comps[ai].team)
        homeName == normalizeTeamName(comps[hi].team)
        awayOwner == OwnerOrDash(teamToOwner, awayName)
        homeOwner == OwnerOrDash(teamToOwner, homeName)
        winnerName == IF wi = 0 THEN "" ELSE normalizeTeamName(comps[wi].team)
        winningOwner == IF winnerName # "" THEN OwnerOrDash(teamToOwner, winnerName) ELSE "-"
        bothUnowned == awayOwner = "Unowned" /\ homeOwner = "Unowned"
    IN  IF ai = 0 \/ hi = 0 THEN <<>>
        ELSE IF bothUnowned THEN <<>>
        ELSE << [kickoff_utc  |-> IF comp.date # "" THEN comp.date ELSE ev.date,
                 away         |-> awayName,
                 home         |-> homeName,
                 winner       |-> winnerName,
                 awayOwner    |-> awayOwner,
                 homeOwner    |-> homeOwner,
                 winningOwner |-> winningOwner] >>

RECURSIVE pushGames(_, _)
pushGames(events, teamToOwner) ==
  IF events = <<>> THEN <<>>
  ELSE gameRowsOf(Head(events), teamToOwner) \o pushGames(Tail(events), teamToOwner)

\* Date.parse on the kick-off strings of the model, in ms from the model
\* epoch 2025-09-07T00:00Z.
DateParse == ("2025-09-07T17:00Z" :> 61200000) @@ ("2025-09-07T20:25Z" :> 73500000)

kickoffTime(row) == IF row.kickoff_utc # "" THEN DateParse[row.kickoff_utc] ELSE 0

\* A plausible slip: the tie broken by the home name before the away name.
compareGamesHomeFirst(a, b) ==
  IF kickoffTime(a) - kickoffTime(b) # 0 THEN kickoffTime(a) - kickoffTime(b)
  ELSE IF localeCompare(a.home, b.home) # 0 THEN localeCompare(a.home, b.home)
  ELSE localeCompare(a.away, b.away)

\* (a,b) => ta - tb || a.away.localeCompare(b.away) || a.home.localeCompare(b.home)
compareGames(a, b) ==
  IF kickoffTime(a) - kickoffTime(b) # 0 THEN kickoffTime(a) - kickoffTime(b)
  ELSE IF localeCompare(a.away, b.away) # 0 THEN localeCompare(a.away, b.away)
  ELSE localeCompare(a.home, b.home)

RECURSIVE insertGame(_, _)
insertGame(sorted, x) ==
  IF sorted = <<>> THEN <<x>>
  ELSE IF compareGames(Head(sorted), x) <= 0
       THEN <<Head(sorted)>> \o insertGame(Tail(sorted), x)
       ELSE <<x>> \o sorted

RECURSIVE sortGames(_)
sortGames(rows) ==
  IF rows = <<>> THEN <<>>
  ELSE insertGame(sortGames(SubSeq(rows, 1, Len(rows) - 1)), rows[Len(rows)])

\* lines 79-119: the rows of a week's results, sorted
weekGames(weekData, config) == sortGames(pushGames(weekData.events, buildTeamToOwner(config)))

\* A plausible slip: the current week tagged in place of the requested one.
gridTaggedCurrentWeek(week, currentWeek) ==
  [week |-> currentWeek, currentWeek |-> currentWeek, games |-> <<>>]

\* line 73
gridWithoutEntry(week, currentWeek) ==
  [week |-> week, currentWeek |-> currentWeek, games |-> <<>>]

\* line 121
gridOfEntry(week, currentWeek, entry, weekData, config) ==
  [week |-> week, currentWeek |-> currentWeek, games |-> weekGames(weekData, config),
   week_label |-> entry.label, startDate |-> entry.startDate, endDate |-> entry.endDate]

(***************************************************************************)
(* computeTeamWinsForSeason, worker.js lines 129-155: the wins one week's  *)
(* results add (lines 141-151).                                            *)
(***************************************************************************)
\* A plausible slip: only the first competition of an event counted, as
\* the week grid does.
addFirstCompetitionWins(winsByAbbr, competitions) ==
  IF competitions = <<>> THEN winsByAbbr
  ELSE
    LET competitors == Head(competitions).competitors
        wi == findWinner(competitors)
        abbr == IF wi = 0 THEN "" ELSE competitors[wi].team.abbreviation
    IN  IF wi = 0 \/ abbr = "" THEN winsByAbbr
        ELSE Put(winsByAbbr, abbr, WinsOrZero(winsByAbbr, abbr) + 1)

RECURSIVE addCompetitionWins(_, _)
addCompetitionWins(winsByAbbr, competitions) ==
  IF competitions = <<>> THEN winsByAbbr
  ELSE
    LET competitors == Head(competitions).competitors
        wi == findWinner(competitors)
        abbr == IF wi = 0 THEN "" ELSE competitors[wi].team.abbreviation
    IN  addCompetitionWins(
          IF wi = 0 \/ abbr = "" THEN winsByAbbr
          ELSE Put(winsByAbbr, abbr, WinsOrZero(winsByAbbr, abbr) + 1),
          Tail(competitions))

RECURSIVE addEventWins(_, _)
addEventWins(winsByAbbr, events) ==
  IF events = <<>> THEN winsByAbbr
  ELSE addEventWins(addCompetitionWins(winsByAbbr, Head(events).competitions), Tail(events))

(***************************************************************************)
(* Inputs of the pure functions.                                           *)
(***************************************************************************)
OwnerNames == {"Alice", "bob", "Carol"}

\* "Sharks" is a team the static table has no code for.
Teams == {"Ravens", "Bears", "Sharks"}

Rosters == {<<>>, <<"Ravens">>, <<"Bears">>, <<"Ravens", "Sharks">>, <<"Bears", "Ravens">>}

\* The owners of a configuration: the entries of a JS object, so the owner
\* names are distinct.
OwnerLists ==
  {os \in SeqsUpTo([owner : OwnerNames, teams : Rosters], MaxOwners) :
     \A i, j \in DOMAIN os : i # j => os[i].owner # os[j].owner}

Configs ==
  [season : {2025}, timezone : {""}, owners : OwnerLists, unowned : SeqsUpTo(Teams, MaxUnowned)]

\* Wins tables: every known code at zero (line 133), the codes of the model's
\* teams at any count, with or without an entry under the pseudo-code "Sharks".
ZeroWins == [a \in Range(NAME_TO_ABBR) |-> 0]

WinsTables ==
  {[a \in (DOMAIN ZeroWins) \cup extra |->
      IF a = "BAL" THEN b ELSE IF a = "CHI" THEN c ELSE IF a = "Sharks" THEN MaxWins ELSE 0] :
     b \in 0..MaxWins, c \in 0..MaxWins, extra \in {{}, {"Sharks"}}}

\* Teams as the provider reports them: with every name, with no short
\* display name, and a team that is in no configuration of GridConfigs' rosters.
TeamRavens == [shortDisplayName |-> "Ravens", name |-> "Ravens", abbreviation |-> "BAL"]

TeamBears == [shortDisplayName |-> "", name |-> "Bears", abbreviation |-> "CHI"]

TeamLions == [shortDisplayName |-> "Lions", name |-> "Lions", abbreviation |-> "DET"]

ProviderTeams == {TeamRavens, TeamBears, TeamLions}

KickoffStrings == {"2025-09-07T17:00Z", "2025-09-07T20:25Z"}

Competitor(side, team, won) == [homeAway |-> side, winner |-> won, team |-> team]

\* An event with one competition of two competitors, the home side listed first.
Matchup(away, home, winnerSide, date) ==
  [date |-> date,
   competitions |-> << [date |-> date,
                        competitors |-> << Competitor("home", home, winnerSide = "home"),
                                           Competitor("away", away, winnerSide = "away") >>] >>]

NoCompetitionEvent == [date |-> "", competitions |-> <<>>]

HomeOnlyEvent ==
  [date |-> "", competitions |-> << [date |-> "",
                                     competitors |-> << Competitor("home", TeamRavens, FALSE) >>] >>]

EventPool ==
  {Matchup(pair[1], pair[2], w, d) :
     pair \in {q \in ProviderTeams \X ProviderTeams : q[1] # q[2]},
     w \in {"none", "away"}, d \in KickoffStrings \cup {""}}
  \cup {NoCompetitionEvent, HomeOnlyEvent}

WeekDatas == [events : SeqsUpTo(EventPool, MaxEvents)]

Owner(name, teams) == [owner |-> name, teams |-> teams]

Config(owners, unowned) ==
  [season |-> 2025, timezone |-> "", owners |-> owners, unowned |-> unowned]

GridConfigs ==
  { Config(<<Owner("Alice", <<"Ravens">>)>>, <<"Bears">>),
    Config(<<Owner("Alice", <<"Ravens">>), Owner("bob", <<"Bears">>)>>, <<"Lions">>),
    Config(<<>>, <<"Ravens", "Bears">>),
    Config(<<Owner("Alice", <<"Ravens", "Bears">>)>>, <<"Ravens">>),
    Config(<<>>, <<>>),
    Config(<<Owner("Carol", <<"Lions">>)>>, <<"Ravens", "Bears", "Lions">>) }

(***************************************************************************)
(* The request handler, worker.js lines 177-272, and its surroundings: the *)
(* environment bindings, the KV store, the clock, the configuration source *)
(* and the provider.                                                       *)
(***************************************************************************)
DEFAULT_TTL_MIN == 30

\* Requests handled at the same time (each in its own invocation).
Slots == {1, 2}

Paths == {"/", "/api/other", "/api/week", "/api/standings"}

\* url.pathname.startsWith("/api/") on the paths of the model
StartsWithApi(path) == path \in {"/api/other", "/api/week", "/api/standings"}

\* url.searchParams.get("week"): "" when the parameter is absent (or empty)
WeekParams == {"", "1", "99", "auto"}

\* line 195
weekCacheKey(weekParam) == "week_cache_v1_" \o (IF weekParam # "" THEN weekParam ELSE "auto")

\* line 234
standingsCacheKey == "standings_cache_v1"

cacheKeyOf(path, weekParam) ==
  IF path = "/api/week" THEN weekCacheKey(weekParam) ELSE standingsCacheKey

CacheKeys == {standingsCacheKey} \cup {weekCacheKey(w) : w \in WeekParams}

\* Number(env.CACHE_TTL_MINUTES || DEFAULT_TTL_MIN), line 184
ttlMinOf(e) ==
  IF e.CACHE_TTL_MINUTES # "" THEN Number(e.CACHE_TTL_MINUTES) ELSE DEFAULT_TTL_MIN

\* ctString, lines 18-25: the civil date and time to the minute; modelled by
\* the minute it displays.
ctString(ms) == ms \div 60000

\* JSON.stringify followed by JSON.parse keeps a payload but for NaN, which
\* becomes null (the week of a non-numeric week parameter).
Stringify(payload) ==
  IF "week" \in DOMAIN payload /\ payload.week = NaN
  THEN [payload EXCEPT !.week = Null]
  ELSE payload

\* The configuration document at CONFIG_URL.
PoolConfig ==
  Config(<<Owner("bob", <<"Bears">>), Owner("Alice", <<"Ravens">>)>>, <<"Lions">>)

\* The provider: the scoreboard root and the results per dates query, before
\* and after the second week's game is final.
EntryHOF == [label |-> "HOF", startDate |-> "2025-08-01T07:00Z", endDate |-> "2025-08-07T06:59Z"]

Entry1 == [label |-> "1", startDate |-> "2025-09-04T07:00Z", endDate |-> "2025-09-10T06:59Z"]

Entry2 == [label |-> "2", startDate |-> "2025-09-10T07:00Z", endDate |-> "2025-09-17T06:59Z"]

EspnWorlds ==
  << [root  |-> [shape |-> "nested", entries |-> <<EntryHOF, Entry1, Entry2>>, weekNumber |-> 1],
      weeks |-> ("20250904-20250910" :>
                   [events |-> <<Matchup(TeamBears, TeamRavens, "home", "2025-09-07T17:00Z")>>])
                @@ ("20250910-20250917" :>
                   [events |-> <<Matchup(TeamRavens, TeamLions, "none", "2025-09-07T20:25Z")>>])],
     [root  |-> [shape |-> "nested", entries |-> <<EntryHOF, Entry1, Entry2>>, weekNumber |-> 2],
      weeks |-> ("20250904-20250910" :>
                   [events |-> <<Matchup(TeamBears, TeamRavens, "home", "2025-09-07T17:00Z")>>])
                @@ ("20250910-20250917" :>
                   [events |-> <<Matchup(TeamRavens, TeamLions, "away", "2025-09-07T20:25Z")>>])] >>

\* What fetchJson returns for a dates query (an empty scoreboard for dates
\* the provider has nothing for).
weekDataOf(world, query) ==
  IF query \in DOMAIN world.weeks THEN world.weeks[query] ELSE [events |-> <<>>]

NoEntry == [absent |-> TRUE]

NoResponse == [status |-> 0]

HitHeaders ==
  ("content-type" :> "application/json; charset=utf-8") @@ ("cache-control" :> "no-store")

FreshHeaders ==
  ("content-type" :> "application/json; charset=utf-8") @@ ("cache-control" :> "no-store")
    @@ ("access-control-allow-origin" :> "*")

\* lines 181 and 231
NotFoundResponse == [status |-> 404, body |-> [text |-> "Not found"], headers |-> <<>>]

\* A plausible slip: a bare server error where the structured one belongs.
MissingConfigUnstructured ==
  [status |-> 500, body |-> [text |-> "Internal Server Error"], headers |-> <<>>]

\* line 189
MissingConfigResponse ==
  [status |-> 500, body |-> [error |-> "Missing CONFIG_URL env var"],
   headers |-> ("content-type" :> "application/json")]

\* lines 200-202 and 240-242
HitResponse(cached) == [status |-> 200, body |-> Stringify(cached.payload), headers |-> HitHeaders]

\* lines 221-227 and 264-270
FreshResponse(payload) == [status |-> 200, body |-> Stringify(payload), headers |-> FreshHeaders]

VARIABLES
  env,         \* the bindings: CONFIG_URL set or not, POOL_KV bound or not, CACHE_TTL_MINUTES
  now,         \* Date.now()
  kv,          \* the KV namespace: key -> entry, or NoEntry
  espn,        \* which of EspnWorlds the provider serves
  req,         \* per slot, the request being handled and where its handler stands
  started,     \* requests started so far
  writtenFor,  \* history: per key, the week parameter of the request that put the entry
  computedIn,  \* history: per key, the provider's state the entry was computed from
  call         \* the call of a pure function made on inputs of its own, and its result

hvars == <<env, now, kv, espn, req, started, writtenFor, computedIn>>

NoCall == [fn |-> "none"]

\* A slot with no request. The fields promised, readFor, validAtCheck, putAt,
\* stored, fetches, weeksFetched, source and failedAt record what happened,
\* for the claims: the handler does not read them.
\*   promised      the entry the store held for the request's key when the
\*                 request arrived, if it had not expired then
\*   readFor       the week parameter of the request that put the entry read
\*   validAtCheck  an entry was read and the clock was strictly before its
\*                 expiry when the handler looked at it
\*   putAt         Date.now() when the put was issued
\*   stored        the entry this request put
\*   fetches       fetchJson calls on the provider
\*   weeksFetched  weekly results fetched with success
\*   source        "cache" or "fresh" for a payload response
\*   failedAt      the fetch that threw
\*   world         which of EspnWorlds every provider fetch of the request
\*                 was (or will be) answered from; 0 when the provider
\*                 changed between two of them
\*   overwrote     the entry the store held for the key when the put landed
\*   overwroteIn   the provider's state that entry was computed from
IdleRequest ==
  [pc |-> "idle", path |-> "", weekParam |-> "", promised |-> NoEntry,
   cached |-> NoEntry, readFor |-> "", validAtCheck |-> FALSE,
   entries |-> <<>>, i |-> 0, winsByAbbr |-> <<>>, week |-> 0, currentWeek |-> 0,
   pending |-> NoEntry, putAt |-> 0, stored |-> NoEntry,
   fetches |-> 0, weeksFetched |-> 0, source |-> "", failedAt |-> "",
   world |-> 0, overwrote |-> NoEntry, overwroteIn |-> 0,
   response |-> NoResponse]

\* The handler returns a response.
respond(rq, response, source) ==
  [rq EXCEPT !.pc = "done", !.response = response, !.source = source,
             !.entries = <<>>, !.i = 0, !.winsByAbbr = <<>>, !.pending = NoEntry]

\* A plausible slip: a failed provider fetch answered from the entry read
\* before, however old.
thrownServingStale(rq, at) ==
  IF rq.cached # NoEntry
  THEN [respond(rq, HitResponse(rq.cached), "cache") EXCEPT !.failedAt = at]
  ELSE [rq EXCEPT !.pc = "done", !.failedAt = at,
                  !.entries = <<>>, !.i = 0, !.winsByAbbr = <<>>, !.pending = NoEntry]

\* fetchJson throws (line 38) and nothing catches: the handler ends with no
\* response of its own.
thrown(rq, at) ==
  [rq EXCEPT !.pc = "done", !.failedAt = at,
             !.entries = <<>>, !.i = 0, !.winsByAbbr = <<>>, !.pending = NoEntry]

\* Another: an entry still served at the instant it expires.
cacheValidInclusive(cached, t) ==
  cached # NoEntry /\ cached.expires_at_ms # 0 /\ t <= cached.expires_at_ms

\* cached && cached.expires_at_ms && Date.now() < cached.expires_at_ms
cacheValid(cached, t) ==
  cached # NoEntry /\ cached.expires_at_ms # 0 /\ t < cached.expires_at_ms

\* fetchJson is called on the provider: one more upstream call.
callProvider(rq, pc) == [rq EXCEPT !.pc = pc, !.fetches = @ + 1]

\* lines 207-213 and 250-255
\* ({..., ...grid}: the keys of the grid are spread into the payload)
weekPayload(grid, t) ==
  grid @@
  [season |-> PoolConfig.season, generated_at_ct |-> ctString(t),
   cache_ttl_minutes |-> ttlMinOf(env),
   timezone |-> IF PoolConfig.timezone # "" THEN PoolConfig.timezone ELSE "America/Chicago"]

standingsPayload(core, t) ==
  [season |-> PoolConfig.season, generated_at_ct |-> ctString(t),
   cache_ttl_minutes |-> ttlMinOf(env),
   standings |-> core.standings, unowned |-> core.unowned]

\* lines 216-219 and 258-261: the entry handed to POOL_KV.put
entryOf(payload, t) ==
  [expires_at_ms |-> t + ttlMinOf(env) * 60 * 1000, payload |-> Stringify(payload)]

\* The payload is complete: store it when there is a store (the put is
\* awaited), then respond.
computed(rq, payload) ==
  IF env.POOL_KV
  THEN [rq EXCEPT !.pc = "awaitPut", !.pending = entryOf(payload, now), !.putAt = now,
                  !.entries = <<>>, !.i = 0, !.winsByAbbr = <<>>]
  ELSE respond(rq, FreshResponse(payload), "fresh")

\* The cache is skipped or missed: fetchWeekGrid or computeTeamWinsForSeason
\* starts with the calendar fetch of getRegularSeasonWeekEntries.
compute(rq) == [callProvider(rq, "awaitCalendar") EXCEPT !.world = espn]

\* The deployments: with a store and the default TTL, without a store and
\* with a TTL of its own, and with no configuration source.
Environments ==
  { [CONFIG_URL |-> TRUE, POOL_KV |-> TRUE, CACHE_TTL_MINUTES |-> ""],
    [CONFIG_URL |-> TRUE, POOL_KV |-> FALSE, CACHE_TTL_MINUTES |-> "15"],
    [CONFIG_URL |-> FALSE, POOL_KV |-> TRUE, CACHE_TTL_MINUTES |-> ""] }

\* A finished request is looked at and leaves its slot before anything else
\* happens (the slot's record is history only).
Quiet == \A s \in Slots : req[s].pc # "done"

Init ==
  /\ env \in Environments
  /\ now = StartMs
  /\ kv = [k \in CacheKeys |-> NoEntry]
  /\ espn = 1
  /\ req = [r \in Slots |-> IdleRequest]
  /\ started = 0
  /\ writtenFor = [k \in CacheKeys |-> ""]
  /\ computedIn = [k \in CacheKeys |-> 0]
  /\ call = NoCall

\* lines 179-191: a request arrives; the handler runs to its first await.
\* (The slots are interchangeable: a request takes the lowest free one.)
Start(r) ==
  /\ req[r].pc = "idle"
  /\ \A s \in Slots : s < r => req[s].pc # "idle"
  /\ Quiet
  /\ started < MaxRequests
  /\ started' = started + 1
  /\ \E path \in Paths, weekParam \in WeekParams :
       /\ path # "/api/week" => weekParam = ""
       /\ LET key == cacheKeyOf(path, weekParam)
              rq == [IdleRequest EXCEPT
                       !.path = path, !.weekParam = weekParam,
                       !.promised = IF /\ path \in {"/api/week", "/api/standings"}
                                       /\ kv[key] # NoEntry
                                       /\ now < kv[key].expires_at_ms
                                    THEN kv[key] ELSE NoEntry]
          IN  req' = [req EXCEPT ![r] =
                        IF ~StartsWithApi(path) THEN respond(rq, NotFoundResponse, "")
                        ELSE IF ~env.CONFIG_URL THEN respond(rq, MissingConfigResponse, "")
                        ELSE [rq EXCEPT !.pc = "awaitConfig"]]
  /\ UNCHANGED <<env, now, kv, espn, writtenFor, computedIn, call>>

\* A plausible slip: a failed configuration fetch answered from the store
\* when it holds an unexpired entry for the request.
ConfigResolvesFallingBack(r) ==
  /\ req[r].pc = "awaitConfig"
  /\ Quiet
  /\ \E ok \in BOOLEAN :
       LET entry == IF req[r].path \in {"/api/week", "/api/standings"} /\ env.POOL_KV
                    THEN kv[cacheKeyOf(req[r].path, req[r].weekParam)] ELSE NoEntry
       IN  req' = [req EXCEPT ![r] =
                     IF ~ok
                     THEN IF cacheValid(entry, now)
                          THEN [respond(@, HitResponse(entry), "cache") EXCEPT !.failedAt = "config"]
                          ELSE thrown(@, "config")
                     ELSE IF @.path \notin {"/api/week", "/api/standings"}
                          THEN respond(@, NotFoundResponse, "")
                     ELSE IF env.POOL_KV THEN [@ EXCEPT !.pc = "awaitKvGet"]
                     ELSE compute(@)]
  /\ UNCHANGED <<env, now, kv, espn, started, writtenFor, computedIn, call>>

\* lines 191-198 and 230-238: fetchJson(configUrl) returns or throws; on
\* success the path is matched and the cache read is issued (or, with no
\* store, the computation starts).
ConfigResolves(r) ==
  /\ req[r].pc = "awaitConfig"
  /\ Quiet
  /\ \E ok \in BOOLEAN :
       req' = [req EXCEPT ![r] =
                 IF ~ok THEN thrown(@, "config")
                 ELSE IF @.path \notin {"/api/week", "/api/standings"}
                      THEN respond(@, NotFoundResponse, "")
                 ELSE IF env.POOL_KV THEN [@ EXCEPT !.pc = "awaitKvGet"]
                 ELSE compute(@)]
  /\ UNCHANGED <<env, now, kv, espn, started, writtenFor, computedIn, call>>

\* lines 198 and 238: the store answers the get.
KvGetResolves(r) ==
  /\ req[r].pc = "awaitKvGet"
  /\ Quiet
  /\ LET key == cacheKeyOf(req[r].path, req[r].weekParam)
     IN  req' = [req EXCEPT ![r] = [@ EXCEPT !.pc = "checkCache", !.cached = kv[key],
                                             !.readFor = writtenFor[key]]]
  /\ UNCHANGED <<env, now, kv, espn, started, writtenFor, computedIn, call>>

\* A plausible slip: a hit that pushes the served entry's expiry forward.
CacheCheckRefreshing(r) ==
  /\ req[r].pc = "checkCache"
  /\ Quiet
  /\ LET seen == [req[r] EXCEPT
                     !.validAtCheck = /\ req[r].cached # NoEntry
                                      /\ now < req[r].cached.expires_at_ms]
         key == cacheKeyOf(req[r].path, req[r].weekParam)
     IN  IF cacheValid(seen.cached, now)
         THEN /\ req' = [req EXCEPT ![r] = respond(seen, HitResponse(seen.cached), "cache")]
              /\ kv' = [kv EXCEPT ![key] =
                          [seen.cached EXCEPT !.expires_at_ms = now + ttlMinOf(env) * 60 * 1000]]
         ELSE /\ req' = [req EXCEPT ![r] = compute(seen)]
              /\ kv' = kv
  /\ UNCHANGED <<env, now, espn, started, writtenFor, computedIn, call>>

\* lines 199-206 and 239-247: the handler goes on with what it read.
CacheCheck(r) ==
  /\ req[r].pc = "checkCache"
  /\ Quiet
  /\ LET seen == [req[r] EXCEPT
                     !.validAtCheck = /\ req[r].cached # NoEntry
                                      /\ now < req[r].cached.expires_at_ms]
     IN  req' = [req EXCEPT ![r] =
                   IF cacheValid(seen.cached, now)
                   THEN respond(seen, HitResponse(seen.cached), "cache")
                   ELSE compute(seen)]
  /\ UNCHANGED <<env, now, kv, espn, started, writtenFor, computedIn, call>>

\* lines 54-60, then 69-77 or 130-139: the scoreboard root returns or the
\* fetch throws.
CalendarResolves(r) ==
  /\ req[r].pc = "awaitCalendar"
  /\ Quiet
  /\ \E ok \in BOOLEAN :
       LET root == EspnWorlds[espn].root
           regularEntries == regularEntriesOf(root)
           currentWeek == currentWeekOf(root)
           week == weekOf(req[r].weekParam, currentWeek)
           idx == findEntry(regularEntries, week)
       IN  req' = [req EXCEPT ![r] =
                     IF ~ok THEN thrown(@, "calendar")
                     ELSE IF @.path = "/api/week"
                          THEN IF idx = 0
                               THEN computed(@, weekPayload(gridWithoutEntry(week, currentWeek), now))
                               ELSE callProvider([@ EXCEPT !.entries = <<regularEntries[idx]>>,
                                                           !.week = week,
                                                           !.currentWeek = currentWeek],
                                                 "awaitWeek")
                     ELSE IF regularEntries = <<>>
                          THEN computed(@, standingsPayload(buildResponse(PoolConfig, ZeroWins), now))
                          ELSE callProvider([@ EXCEPT !.entries = regularEntries, !.i = 1,
                                                      !.winsByAbbr = ZeroWins],
                                            "awaitWeekly")]
  /\ UNCHANGED <<env, now, kv, espn, started, writtenFor, computedIn, call>>

\* lines 77-121: the week's results return or the fetch throws.
WeekResolves(r) ==
  /\ req[r].pc = "awaitWeek"
  /\ Quiet
  /\ \E ok \in BOOLEAN :
       LET entry == req[r].entries[1]
           weekData == weekDataOf(EspnWorlds[espn], datesQuery(entry))
       IN  req' = [req EXCEPT ![r] =
                     IF ~ok THEN thrown(@, "week")
                     ELSE computed([@ EXCEPT !.weeksFetched = 1],
                                   weekPayload(gridOfEntry(@.week, @.currentWeek, entry,
                                                           weekData, PoolConfig), now))]
  /\ UNCHANGED <<env, now, kv, espn, started, writtenFor, computedIn, call>>

\* lines 136-154 and 248-255: the results of week i return or the fetch
\* throws; after the last week the standings are built.
WeeklyResolves(r) ==
  /\ req[r].pc = "awaitWeekly"
  /\ Quiet
  /\ \E ok \in BOOLEAN :
       LET entry == req[r].entries[req[r].i]
           weekData == weekDataOf(EspnWorlds[espn], datesQuery(entry))
           winsByAbbr == addEventWins(req[r].winsByAbbr, weekData.events)
       IN  req' = [req EXCEPT ![r] =
                     IF ~ok THEN thrown(@, "weekly")
                     ELSE IF @.i < Len(@.entries)
                          THEN callProvider([@ EXCEPT !.i = @ + 1, !.winsByAbbr = winsByAbbr,
                                                      !.weeksFetched = @ + 1],
                                            "awaitWeekly")
                          ELSE computed([@ EXCEPT !.weeksFetched = @ + 1],
                                        standingsPayload(buildResponse(PoolConfig, winsByAbbr), now))]
  /\ UNCHANGED <<env, now, kv, espn, started, writtenFor, computedIn, call>>

\* A plausible slip: a put that leaves an entry already there in place.
PutKeepsFirst(r) ==
  /\ req[r].pc = "awaitPut"
  /\ Quiet
  /\ LET key == cacheKeyOf(req[r].path, req[r].weekParam)
         kept == kv[key] # NoEntry
     IN  /\ kv' = IF kept THEN kv ELSE [kv EXCEPT ![key] = req[r].pending]
         /\ writtenFor' = IF kept THEN writtenFor
                          ELSE [writtenFor EXCEPT ![key] = req[r].weekParam]
         /\ computedIn' = IF kept THEN computedIn
                          ELSE [computedIn EXCEPT ![key] = req[r].world]
         /\ req' = [req EXCEPT ![r] =
               respond([@ EXCEPT !.stored = req[r].pending,
                                 !.overwrote = kv[key], !.overwroteIn = computedIn[key]],
                       FreshResponse(req[r].pending.payload), "fresh")]
  /\ UNCHANGED <<env, now, espn, started, call>>

\* lines 215-227 and 257-270: the store takes the put; the handler responds.
PutResolves(r) ==
  /\ req[r].pc = "awaitPut"
  /\ Quiet
  /\ LET key == cacheKeyOf(req[r].path, req[r].weekParam)
     IN  /\ kv' = [kv EXCEPT ![key] = req[r].pending]
         /\ writtenFor' = [writtenFor EXCEPT ![key] = req[r].weekParam]
         /\ computedIn' = [computedIn EXCEPT ![key] = req[r].world]
         /\ req' = [req EXCEPT ![r] =
               respond([@ EXCEPT !.stored = req[r].pending,
                                 !.overwrote = kv[key], !.overwroteIn = computedIn[key]],
                       FreshResponse(req[r].pending.payload), "fresh")]
  /\ UNCHANGED <<env, now, espn, started, call>>

\* The invocation is over. The requests still being handled move down, so
\* that the slots stay in order of arrival.
Retire(r) ==
  /\ req[r].pc = "done"
  /\ req' = [s \in Slots |-> IF s < r THEN req[s]
                             ELSE IF s + 1 \in Slots THEN req[s + 1] ELSE IdleRequest]
  /\ UNCHANGED <<env, now, kv, espn, started, writtenFor, computedIn, call>>

\* Time passes.
Tick ==
  /\ Quiet
  /\ now + TickMs <= StartMs + MaxTicks * TickMs
  /\ now' = now + TickMs
  /\ UNCHANGED <<env, kv, espn, req, started, writtenFor, computedIn, call>>

\* The second week's game becomes final at the provider.
ProviderAdvances ==
  /\ Quiet
  /\ espn < Len(EspnWorlds)
  /\ espn' = espn + 1
  /\ req' = [s \in Slots |->
               IF req[s].pc = "awaitCalendar" THEN [req[s] EXCEPT !.world = espn + 1]
               ELSE IF req[s].pc \in {"awaitWeek", "awaitWeekly"} THEN [req[s] EXCEPT !.world = 0]
               ELSE req[s]]
  /\ UNCHANGED <<env, now, kv, started, writtenFor, computedIn, call>>

\* The worker is deployed again without its CONFIG_URL binding, between
\* invocations; the store keeps what it holds.
Redeploy ==
  /\ \A s \in Slots : req[s].pc = "idle"
  /\ env.CONFIG_URL /\ env.POOL_KV
  /\ started < MaxRequests
  /\ env' = [env EXCEPT !.CONFIG_URL = FALSE]
  /\ UNCHANGED <<now, kv, espn, req, started, writtenFor, computedIn, call>>


vars == <<env, now, kv, espn, req, started, writtenFor, computedIn, call>>

Next ==
  \/ \E r \in Slots : Start(r)
  \/ \E r \in Slots : ConfigResolves(r)
  \/ \E r \in Slots : KvGetResolves(r)
  \/ \E r \in Slots : CacheCheck(r)
  \/ \E r \in Slots : CalendarResolves(r)
  \/ \E r \in Slots : WeekResolves(r)
  \/ \E r \in Slots : WeeklyResolves(r)
  \/ \E r \in Slots : PutResolves(r)
  \/ \E r \in Slots : Retire(r)
  \/ Tick
  \/ ProviderAdvances
  \/ Redeploy

Spec == Init /\ [][Next]_vars

\* The pure functions, called on inputs of their own; no request is handled.
InitFn ==
  /\ call = NoCall
  /\ env = [CONFIG_URL |-> TRUE, POOL_KV |-> TRUE, CACHE_TTL_MINUTES |-> ""]
  /\ now = StartMs
  /\ kv = [k \in CacheKeys |-> NoEntry]
  /\ espn = 1
  /\ req = [r \in Slots |-> IdleRequest]
  /\ started = 0
  /\ writtenFor = [k \in CacheKeys |-> ""]
  /\ computedIn = [k \in CacheKeys |-> 0]

CallBuildTeamToOwner ==
  /\ call.fn = "none"
  /\ UNCHANGED hvars
  /\ \E config \in Configs :
       call' = [fn |-> "buildTeamToOwner", config |-> config, result |-> buildTeamToOwner(config)]

CallBuildResponse ==
  /\ call.fn = "none"
  /\ UNCHANGED hvars
  /\ \E config \in Configs, winsByAbbr \in WinsTables :
       call' = [fn |-> "buildResponse", config |-> config, winsByAbbr |-> winsByAbbr,
                result |-> buildResponse(config, winsByAbbr)]

CallWeekGames ==
  /\ call.fn = "none"
  /\ UNCHANGED hvars
  /\ \E config \in GridConfigs, weekData \in WeekDatas :
       call' = [fn |-> "weekGames", config |-> config, weekData |-> weekData,
                result |-> weekGames(weekData, config)]

NextFn == CallBuildTeamToOwner \/ CallBuildResponse \/ CallWeekGames

SpecFn == InitFn /\ [][NextFn]_vars


(***************************************************************************)
(* Claims about the pure functions, checked under SpecFn.                  *)
(***************************************************************************)
(* computeTeamWinsForSeason, worker.js lines 129-155, run on its own on    *)
(* calendars and results of every kind: one call, fetch by fetch.          *)
(***************************************************************************)
\* The labels of the weeks of a long calendar.
WeekLabels ==
  << "1", "2", "3", "4", "5", "6", "7", "8", "9", "10", "11",
     "12", "13", "14", "15", "16", "17", "18", "19", "20", "21", "22" >>

WeekEntry(k) ==
  [label |-> WeekLabels[k], startDate |-> Entry1.startDate, endDate |-> Entry1.endDate]

\* Calendars of a whole season and more: one entry per week.
LongCalendars ==
  {[k \in 1..n |-> WeekEntry(k)] : n \in (RegularSeasonCap - 1)..MaxLongCalendar}

\* Entries the filter of line 57 has to judge: a label that is no number,
\* the label "0", and entries with a date missing.
Entry0 == [label |-> "0", startDate |-> "2025-08-01T07:00Z", endDate |-> "2025-08-07T06:59Z"]

EntryNoEnd == [label |-> "3", startDate |-> "2025-09-10T07:00Z", endDate |-> ""]

EntryNoStart == [label |-> "3", startDate |-> "", endDate |-> "2025-09-17T06:59Z"]

EntryPool == {EntryHOF, Entry0, Entry1, Entry2, EntryNoEnd, EntryNoStart}

Calendars == SeqsUpTo(EntryPool, MaxCalendar) \cup LongCalendars

\* Teams whose code is not one of NAME_TO_ABBR, or is missing.
TeamMonarchs == [shortDisplayName |-> "Monarchs", name |-> "Monarchs", abbreviation |-> "LON"]

TeamNoCode == [shortDisplayName |-> "Sharks", name |-> "Sharks", abbreviation |-> ""]

\* An event with two competitions, each with a winner.
TwoCompetitionEvent ==
  [date |-> "2025-09-07T17:00Z",
   competitions |->
     Matchup(TeamRavens, TeamLions, "home", "2025-09-07T17:00Z").competitions
     \o Matchup(TeamBears, TeamRavens, "away", "2025-09-07T20:25Z").competitions]

\* What the provider answers per dates query: the weeks of EspnWorlds, and
\* weeks with a game not final, an event of two competitions, winners with
\* an unknown code and with none, and a game in the window of label "0".
SeasonScoreboards ==
  { EspnWorlds[1].weeks,
    EspnWorlds[2].weeks,
    ("20250904-20250910" :>
        [events |-> << TwoCompetitionEvent,
                       Matchup(TeamRavens, TeamBears, "none", "2025-09-07T17:00Z"),
                       Matchup(TeamMonarchs, TeamBears, "away", "2025-09-07T17:00Z") >>])
    @@ ("20250910-20250917" :>
        [events |-> << Matchup(TeamNoCode, TeamLions, "away", "2025-09-07T17:00Z"),
                       NoCompetitionEvent,
                       Matchup(TeamLions, TeamBears, "home", "2025-09-07T20:25Z") >>])
    @@ ("20250801-20250807" :>
        [events |-> << Matchup(TeamBears, TeamRavens, "away", "2025-09-07T17:00Z") >>]) }

SeasonWorlds ==
  [root  : [shape : {"nested", "flat", "none"}, entries : Calendars, weekNumber : {1}],
   weeks : SeasonScoreboards]

\* line 130: computeTeamWinsForSeason is called and issues the calendar fetch.
SeasonCall ==
  /\ call.fn = "none"
  /\ UNCHANGED hvars
  /\ \E world \in SeasonWorlds :
       call' = [fn |-> "computeTeamWinsForSeason", world |-> world, pc |-> "awaitCalendar",
                regularEntries |-> <<>>, i |-> 0, winsByAbbr |-> EmptyMap,
                fetches |-> 1, outstanding |-> 1, weeklyFetches |-> 0]

\* lines 54-60 and 130-139: the root returns (or the fetch throws); the
\* table is seeded and the first week's results are fetched.
SeasonCalendarReturns ==
  /\ call.fn = "computeTeamWinsForSeason" /\ call.pc = "awaitCalendar"
  /\ UNCHANGED hvars
  /\ \E ok \in BOOLEAN :
       LET regularEntries == regularEntriesOf(call.world.root)
       IN  call' =
             IF ~ok THEN [call EXCEPT !.pc = "threw", !.outstanding = 0]
             ELSE IF regularEntries = <<>>
                  THEN [call EXCEPT !.pc = "returned", !.outstanding = 0,
                                    !.winsByAbbr = ZeroWins]
                  ELSE [call EXCEPT !.pc = "awaitWeekly", !.regularEntries = regularEntries,
                                    !.i = 1, !.winsByAbbr = ZeroWins,
                                    !.fetches = @ + 1, !.weeklyFetches = @ + 1]

\* lines 139-154: the results of week i return (or the fetch throws); the
\* winners are counted and the next week is fetched, or the table returned.
SeasonWeekReturns ==
  /\ call.fn = "computeTeamWinsForSeason" /\ call.pc = "awaitWeekly"
  /\ UNCHANGED hvars
  /\ \E ok \in BOOLEAN :
       LET weekData == weekDataOf(call.world, datesQuery(call.regularEntries[call.i]))
           winsByAbbr == addEventWins(call.winsByAbbr, weekData.events)
       IN  call' =
             IF ~ok THEN [call EXCEPT !.pc = "threw", !.outstanding = 0]
             ELSE IF call.i < Len(call.regularEntries)
                  THEN [call EXCEPT !.i = @ + 1, !.winsByAbbr = winsByAbbr,
                                    !.fetches = @ + 1, !.weeklyFetches = @ + 1]
                  ELSE [call EXCEPT !.pc = "returned", !.outstanding = 0,
                                    !.winsByAbbr = winsByAbbr]

NextSeason == SeasonCall \/ SeasonCalendarReturns \/ SeasonWeekReturns

SpecSeason == InitFn /\ [][NextSeason]_vars

(***************************************************************************)
InSomeRoster(config, t) == \E i \in DOMAIN config.owners : t \in Range(config.owners[i].teams)

OwnersListing(config, t) ==
  {config.owners[i].owner : i \in {j \in DOMAIN config.owners : t \in Range(config.owners[j].teams)}}

\* C7: buildTeamToOwner maps every team of some owner's roster to an owner
\* whose roster lists it and never to "Unowned", also when the team is in
\* unowned as well; a team maps to "Unowned" exactly when it is listed in
\* unowned and in no roster.
C7_ExplicitOwnerWins ==
  call.fn = "buildTeamToOwner" =>
    \A t \in Teams :
      /\ InSomeRoster(call.config, t) =>
           /\ t \in DOMAIN call.result
           /\ call.result[t] \in OwnersListing(call.config, t)
           /\ call.result[t] # "Unowned"
      /\ (t \in DOMAIN call.result /\ call.result[t] = "Unowned")
           <=> (t \in Range(call.config.unowned) /\ ~InSomeRoster(call.config, t))

C7_Witness ==
  /\ call.fn = "buildTeamToOwner"
  /\ \E t \in Teams : /\ InSomeRoster(call.config, t)
                       /\ t \in Range(call.config.unowned)
                       /\ call.result[t] \in OwnerNames

\* C8: the standings hold exactly one row per configured owner; a row with
\* strictly more total wins precedes a row with fewer, and rows with equal
\* totals are in ascending order of owner name (the order of localeCompare).
C8_StandingsOrdered ==
  call.fn = "buildResponse" =>
    LET s == call.result.standings
        owners == call.config.owners
    IN  /\ Len(s) = Len(owners)
        /\ \A i \in DOMAIN owners :
             Cardinality({k \in DOMAIN s : s[k].owner = owners[i].owner}) = 1
        /\ \A i, j \in DOMAIN s :
             i < j => \/ s[i].total_wins > s[j].total_wins
                      \/ /\ s[i].total_wins = s[j].total_wins
                         /\ CollationRank[s[i].owner] < CollationRank[s[j].owner]

C8_Witness ==
  /\ call.fn = "buildResponse"
  /\ Len(call.result.standings) = 3
  /\ call.result.standings[1].total_wins > call.result.standings[2].total_wins
  /\ call.result.standings[2].total_wins = call.result.standings[3].total_wins
  /\ call.result.standings[1].owner = call.config.owners[3].owner
  /\ call.result.standings[2].owner = call.config.owners[2].owner

\* The wins the table holds for a team, by the code of the static table and
\* by the team name itself when the table has none.
ExpectedWins(winsByAbbr, t) ==
  LET code == IF t \in DOMAIN NAME_TO_ABBR THEN NAME_TO_ABBR[t] ELSE t
  IN  IF code \in DOMAIN winsByAbbr THEN winsByAbbr[code] ELSE 0

RECURSIVE SumOfWins(_, _)
SumOfWins(rows, n) == IF n = 0 THEN 0 ELSE SumOfWins(rows, n - 1) + rows[n].wins

RowOfOwner(standings, owner) == standings[CHOOSE k \in DOMAIN standings : standings[k].owner = owner]

\* C9: in every standings row the total equals the sum of the wins of the
\* row's teams, the teams are the owner's roster in order, and each team's
\* wins is the wins-table entry under the team's code (0 when there is none).
C9_TotalsAreSums ==
  call.fn = "buildResponse" =>
    \A i \in DOMAIN call.config.owners :
      LET entry == call.config.owners[i]
          row == RowOfOwner(call.result.standings, entry.owner)
      IN  /\ Len(row.teams) = Len(entry.teams)
          /\ \A k \in DOMAIN row.teams :
               /\ row.teams[k].team = entry.teams[k]
               /\ row.teams[k].wins = ExpectedWins(call.winsByAbbr, entry.teams[k])
          /\ row.total_wins = SumOfWins(row.teams, Len(row.teams))

C9_Witness ==
  /\ call.fn = "buildResponse"
  /\ \E k \in DOMAIN call.result.standings :
       LET row == call.result.standings[k]
       IN  /\ Len(row.teams) = 2
           /\ row.teams[1].wins >= 1 /\ row.teams[2].wins >= 1
           /\ row.teams[2].team = "Sharks"
           /\ row.total_wins = row.teams[1].wins + row.teams[2].wins


\* The first competition of the event has an away and a home competitor.
HasBothSides(ev) ==
  /\ ev.competitions # <<>>
  /\ \E c \in Range(ev.competitions[1].competitors) : IsAway(c)
  /\ \E c \in Range(ev.competitions[1].competitors) : IsHome(c)

AwayName(ev) ==
  LET comps == ev.competitions[1].competitors
  IN  normalizeTeamName(comps[findAway(comps)].team)

HomeName(ev) ==
  LET comps == ev.competitions[1].competitors
  IN  normalizeTeamName(comps[findHome(comps)].team)

EventKickoff(ev) == IF ev.competitions[1].date # "" THEN ev.competitions[1].date ELSE ev.date

RowShown(games, ev) ==
  \E k \in DOMAIN games : /\ games[k].away = AwayName(ev)
                          /\ games[k].home = HomeName(ev)
                          /\ games[k].kickoff_utc = EventKickoff(ev)

\* C10: a matchup with an away and a home competitor is a row of the week
\* grid if and only if at least one of its two teams is in some owner's
\* roster; a matchup of two teams without an owner (teams that are in no
\* part of the configuration included) is never a row.
C10_RowIffOwned ==
  call.fn = "weekGames" =>
    \A i \in DOMAIN call.weekData.events :
      LET ev == call.weekData.events[i]
      IN  HasBothSides(ev) =>
            (RowShown(call.result, ev)
               <=> \/ InSomeRoster(call.config, AwayName(ev))
                   \/ InSomeRoster(call.config, HomeName(ev)))


(***************************************************************************)
(* Claims about the request handler, checked under Spec.                   *)
(***************************************************************************)
Finished(r) == req[r].pc = "done"

TtlMs == ttlMinOf(env) * 60 * 1000

\* C1 as stated: a /api/standings request that arrives while the store
\* holds an entry an earlier request stored, strictly before that entry's
\* expiry, returns exactly the stored payload and makes no provider fetch.
C1_SecondServedFromCache ==
  \A r \in Slots :
    (Finished(r) /\ req[r].path = "/api/standings" /\ req[r].promised # NoEntry) =>
      /\ req[r].response.status = 200
      /\ req[r].response.body = req[r].promised.payload
      /\ req[r].fetches = 0

Cacheable(r) == req[r].path \in {"/api/week", "/api/standings"} /\ env.POOL_KV

\* C2: on both paths a request that has read the store is served the entry
\* read exactly when the clock is strictly before the entry's expiry; with
\* no entry, or at or after the expiry,
\* the handler recomputes from the provider and puts, under the request's
\* key, a new entry that expires TTL minutes after the time of the put.
C2_ServedIffUnexpired ==
  \A r \in Slots :
    Cacheable(r) =>
      /\ (Finished(r) /\ req[r].source = "cache") =>
           /\ req[r].validAtCheck
           /\ req[r].response.body = req[r].cached.payload
           /\ req[r].fetches = 0
      /\ (\/ req[r].pc \in {"awaitCalendar", "awaitWeek", "awaitWeekly", "awaitPut"}
          \/ (Finished(r) /\ req[r].source = "fresh")
          \/ (Finished(r) /\ req[r].failedAt \in {"calendar", "week", "weekly"})) =>
           /\ ~req[r].validAtCheck
           /\ req[r].fetches >= 1
      /\ req[r].pc = "awaitPut" =>
           req[r].pending.expires_at_ms = req[r].putAt + TtlMs
      /\ (Finished(r) /\ req[r].source = "fresh") =>
           /\ req[r].stored.expires_at_ms = req[r].putAt + TtlMs
           /\ req[r].stored.payload = req[r].response.body
           /\ kv[cacheKeyOf(req[r].path, req[r].weekParam)] = req[r].stored

\* An entry read at the very instant of its expiry: recomputed and overwritten.
C2_Witness ==
  \E r \in Slots :
    /\ Finished(r) /\ Cacheable(r) /\ req[r].source = "fresh"
    /\ req[r].cached # NoEntry
    /\ now = req[r].cached.expires_at_ms
    /\ kv[cacheKeyOf(req[r].path, req[r].weekParam)] = req[r].stored
    /\ req[r].stored.expires_at_ms = now + 30 * 60 * 1000

\* C3: a season-standings computation whose calendar fetch or whose fetch
\* of any week fails ends with no response payload at all (none built from
\* the weeks fetched so far, none from the entry read, however old) and
\* with no put by that request.
C3_FailureFailsWhole ==
  \A r \in Slots :
    (Finished(r) /\ req[r].path = "/api/standings"
       /\ req[r].failedAt \in {"calendar", "weekly"}) =>
      /\ req[r].response = NoResponse
      /\ req[r].source = ""
      /\ req[r].stored = NoEntry

\* The second weekly fetch fails after the first succeeded, with an expired
\* entry read from the store.
C3_Witness ==
  \E r \in Slots :
    /\ Finished(r) /\ req[r].path = "/api/standings" /\ req[r].failedAt = "weekly"
    /\ req[r].weeksFetched = 1
    /\ req[r].cached # NoEntry
    /\ kv[standingsCacheKey] = req[r].cached

\* C4: a payload served from the cache to a week request was computed for a
\* request with the same week parameter (none for none).
C4_ServedForSameParam ==
  \A r \in Slots :
    (Finished(r) /\ req[r].path = "/api/week" /\ req[r].source = "cache") =>
      req[r].readFor = req[r].weekParam

\* C5: a request whose path is neither /api/standings nor /api/week ends
\* with the not-found response, whatever the environment.
C5_OtherPathsNotFound ==
  \A r \in Slots :
    (Finished(r) /\ req[r].path \notin {"/api/standings", "/api/week"}) =>
      req[r].response.status = 404

\* C6: every successful week or standings response, from the cache or
\* fresh, carries cache-control: no-store and access-control-allow-origin: *.
C6_HeadersOnEverySuccess ==
  \A r \in Slots :
    (Finished(r) /\ req[r].response.status = 200) =>
      /\ "cache-control" \in DOMAIN req[r].response.headers
      /\ req[r].response.headers["cache-control"] = "no-store"
      /\ "access-control-allow-origin" \in DOMAIN req[r].response.headers
      /\ req[r].response.headers["access-control-allow-origin"] = "*"


(***************************************************************************)
(* Claims about the week grid, checked under SpecFn.                       *)
(***************************************************************************)
\* The kickoff timestamp of a row: zero for a row with no kickoff.
Timestamp(row) == IF row.kickoff_utc = "" THEN 0 ELSE DateParse[row.kickoff_utc]

NameBefore(x, y) == CollationRank[x] < CollationRank[y]

\* C11: in every grid weekGames returns, each row's kickoff timestamp is
\* at most the next row's (no kickoff counting as zero), and adjacent rows
\* with equal timestamps are in the order of their away names, then of
\* their home names.
C11_GridOrdered ==
  call.fn = "weekGames" =>
    \A i \in 1..(Len(call.result) - 1) :
      LET a == call.result[i]
          b == call.result[i + 1]
      IN  /\ Timestamp(a) <= Timestamp(b)
          /\ Timestamp(a) = Timestamp(b) =>
               \/ NameBefore(a.away, b.away)
               \/ a.away = b.away /\ (NameBefore(a.home, b.home) \/ a.home = b.home)

\* Two rows of one kickoff time that the provider listed in the other
\* order, and whose home names are in the order opposite to their away names.
C11_Witness ==
  /\ call.fn = "weekGames"
  /\ Len(call.result) = 2
  /\ Timestamp(call.result[1]) = Timestamp(call.result[2])
  /\ NameBefore(call.result[1].away, call.result[2].away)
  /\ NameBefore(call.result[2].home, call.result[1].home)
  /\ Len(call.weekData.events) = 2
  /\ AwayName(call.weekData.events[1]) = call.result[2].away


(***************************************************************************)
(* Further claims about the request handler, checked under Spec.           *)
(***************************************************************************)
\* No calendar the provider returns has a week window labelled with the number.
NoWindowFor(weekParam) ==
  \A w \in DOMAIN EspnWorlds :
    findEntry(regularEntriesOf(EspnWorlds[w].root), Number(weekParam)) = 0

\* C12: a week request for a week number that labels no week window is
\* answered with an empty game list, the requested number as the week, no
\* week_label, startDate or endDate, and without any weekly results fetch
\* (one provider fetch, the calendar, when it is computed; none on a hit).
C12_NoWindowEmptyGrid ==
  \A r \in Slots :
    (/\ Finished(r) /\ req[r].path = "/api/week"
     /\ req[r].response.status = 200
     /\ MatchesDigits(req[r].weekParam)
     /\ NoWindowFor(req[r].weekParam)) =>
      LET body == req[r].response.body
      IN  /\ body.games = <<>>
          /\ body.week = Number(req[r].weekParam)
          /\ DOMAIN body \cap {"week_label", "startDate", "endDate"} = {}
          /\ req[r].weeksFetched = 0
          /\ req[r].fetches = IF req[r].source = "fresh" THEN 1 ELSE 0

\* Week 99 is computed while the provider's current week is 2.
C12_Witness ==
  \E r \in Slots :
    /\ Finished(r) /\ req[r].path = "/api/week" /\ req[r].weekParam = "99"
    /\ req[r].source = "fresh"
    /\ req[r].response.body.week = 99
    /\ req[r].response.body.currentWeek = 2
    /\ req[r].fetches = 1


\* C13: with no CONFIG_URL, a standings or week request is answered at
\* once (before any await) with the structured 500 error, having fetched
\* nothing, read no entry and put none, also when the store held an
\* unexpired entry for its key on arrival.
C13_MissingConfigAtOnce ==
  \A r \in Slots :
    (~env.CONFIG_URL /\ req[r].pc # "idle"
       /\ req[r].path \in {"/api/standings", "/api/week"}) =>
      /\ Finished(r)
      /\ req[r].response.status = 500
      /\ req[r].response.body = [error |-> "Missing CONFIG_URL env var"]
      /\ req[r].response.headers = ("content-type" :> "application/json")
      /\ req[r].fetches = 0 /\ req[r].failedAt = ""
      /\ req[r].cached = NoEntry /\ req[r].source = ""
      /\ req[r].stored = NoEntry /\ req[r].pending = NoEntry

\* The store holds an unexpired standings entry when the request arrives.
C13_Witness ==
  \E r \in Slots :
    /\ ~env.CONFIG_URL /\ Finished(r) /\ req[r].path = "/api/standings"
    /\ req[r].promised # NoEntry
    /\ kv[standingsCacheKey] = req[r].promised
    /\ now < kv[standingsCacheKey].expires_at_ms
    /\ req[r].response.status = 500


KeyOf(r) == cacheKeyOf(req[r].path, req[r].weekParam)

\* The payload of a whole computation: every field of the response, and
\* for the standings a row for every owner with every team of the roster.
CompletePayload(key, payload) ==
  IF key = standingsCacheKey
  THEN /\ DOMAIN payload =
            {"season", "generated_at_ct", "cache_ttl_minutes", "standings", "unowned"}
       /\ Len(payload.standings) = Len(PoolConfig.owners)
       /\ \A o \in Range(PoolConfig.owners) :
            \E row \in Range(payload.standings) :
              row.owner = o.owner /\ Len(row.teams) = Len(o.teams)
       /\ Len(payload.unowned) = Len(PoolConfig.unowned)
  ELSE {"season", "generated_at_ct", "cache_ttl_minutes", "timezone",
        "week", "currentWeek", "games"} \subseteq DOMAIN payload

\* C14: whatever the interleaving of two requests that both miss on one
\* key, once a put has landed the store holds that put's entry, entire (the
\* later put wins); every entry in the store is the whole payload of one
\* computation; and a standings entry put over one computed from the same
\* provider state has the same standings and unowned content.
C14_LaterPutWins ==
  /\ \A k \in CacheKeys : kv[k] # NoEntry => CompletePayload(k, kv[k].payload)
  /\ \A r \in Slots :
       (Finished(r) /\ Cacheable(r) /\ req[r].source = "fresh") =>
         /\ kv[KeyOf(r)] = req[r].stored
         /\ req[r].stored.payload = req[r].response.body
         /\ (/\ req[r].path = "/api/standings"
             /\ req[r].overwrote # NoEntry
             /\ req[r].world # 0 /\ req[r].overwroteIn = req[r].world) =>
              /\ req[r].stored.payload.standings = req[r].overwrote.payload.standings
              /\ req[r].stored.payload.unowned = req[r].overwrote.payload.unowned

\* The request read an empty store and its put lands on the entry another
\* request put meanwhile, at another time, from the same provider state.
C14_Witness ==
  \E r \in Slots :
    /\ Finished(r) /\ req[r].path = "/api/standings" /\ req[r].source = "fresh"
    /\ req[r].readFor = "" /\ req[r].cached = NoEntry /\ env.POOL_KV
    /\ req[r].overwrote # NoEntry
    /\ req[r].overwrote.expires_at_ms < req[r].stored.expires_at_ms
    /\ req[r].world = 2 /\ req[r].overwroteIn = 2
    /\ kv[standingsCacheKey] = req[r].stored


(***************************************************************************)
(* Claims about the season computation, checked under SpecSeason.          *)
(***************************************************************************)
InSeason == call.fn = "computeTeamWinsForSeason"

\* C15 as stated: the computation never has two provider calls outstanding
\* and makes at most 18 provider calls in all.
C15_AtMost18Calls ==
  InSeason => call.outstanding <= 1 /\ call.fetches <= 18

\* C15 amended: the computation never has two provider calls outstanding
\* and makes one calendar call and at most 18 weekly results calls, 19
\* provider calls in all at most.
C15_AtMost18WeeklyCalls ==
  InSeason =>
    /\ call.outstanding <= 1
    /\ call.weeklyFetches <= 18
    /\ call.fetches = 1 + call.weeklyFetches
    /\ call.fetches <= 19

\* A calendar of 20 weeks: the computation returns after 19 calls.
C15_Witness ==
  /\ InSeason /\ call.pc = "returned"
  /\ call.world.root.shape = "nested" /\ Len(call.world.root.entries) = 20
  /\ call.weeklyFetches = 18 /\ call.fetches = 19


\* The events the provider returns for window i of the resolved windows.
EventsOfWindow(world, entries, i) ==
  weekDataOf(world, datesQuery(entries[i])).events

\* A participant of the matchup with the code is flagged as the winner.
FlaggedWinner(competition, code) ==
  \E c \in Range(competition.competitors) : c.winner = TRUE /\ c.team.abbreviation = code

\* The matchups, over all resolved windows, whose flagged winner has the
\* code: <<window, event, competition>>.
MatchupsWonBy(world, entries, code) ==
  UNION { UNION { { <<i, j, k>> :
                      k \in { n \in DOMAIN EventsOfWindow(world, entries, i)[j].competitions :
                                FlaggedWinner(
                                  EventsOfWindow(world, entries, i)[j].competitions[n], code) } } :
                  j \in DOMAIN EventsOfWindow(world, entries, i) } :
          i \in DOMAIN entries }

\* C16: the table computeTeamWinsForSeason returns has every code of
\* NAME_TO_ABBR, and every code in it counts the matchups, over all
\* resolved week windows, in which a participant with that code is flagged
\* as the winner: zero when there is none, and a matchup with no flagged
\* winner counts for nobody.
C16_WinsCountFlaggedWinners ==
  (InSeason /\ call.pc = "returned") =>
    LET entries == regularEntriesOf(call.world.root)
    IN  /\ Range(NAME_TO_ABBR) \subseteq DOMAIN call.winsByAbbr
        /\ \A code \in DOMAIN call.winsByAbbr :
             call.winsByAbbr[code] = Cardinality(MatchupsWonBy(call.world, entries, code))
        /\ \A code \in DOMAIN call.winsByAbbr \ Range(NAME_TO_ABBR) :
             call.winsByAbbr[code] >= 1

\* Two weeks with an event of two competitions, a matchup with no flagged
\* winner, a winner with no code and a winner whose code is not a known one.
C16_Witness ==
  /\ InSeason /\ call.pc = "returned"
  /\ call.regularEntries = <<Entry1, Entry2>>
  /\ call.winsByAbbr["CHI"] = 2 /\ call.winsByAbbr["DET"] = 1
  /\ call.winsByAbbr["BAL"] = 0
  /\ "LON" \in DOMAIN call.winsByAbbr
  /\ \E ev \in Range(EventsOfWindow(call.world, call.regularEntries, 1)) :
       /\ Len(ev.competitions) = 1
       /\ \A c \in Range(ev.competitions[1].competitors) : c.winner = FALSE


\* The label is a plain positive integer string, and both dates are there.
IsRegularWeek(e) ==
  /\ MatchesDigits(e.label) /\ Number(e.label) > 0
  /\ e.startDate # "" /\ e.endDate # ""

FirstOf(seq, n) == SubSeq(seq, 1, IF Len(seq) < n THEN Len(seq) ELSE n)

\* C17: the week windows the computation works from are, in calendar
\* order, the first 18 (or fewer) entries with a plain positive integer
\* label and both dates; no entry with another label, with the label "0"
\* or with a date missing is among them.
C17_WindowsArePositiveWeeks ==
  (InSeason /\ call.pc \in {"awaitWeekly", "returned"}) =>
    /\ call.regularEntries = FirstOf(SelectSeq(calendarOf(call.world.root), IsRegularWeek), 18)
    /\ \A e \in Range(call.regularEntries) : IsRegularWeek(e)


\* C18: no step of the handler removes an entry from the store; a cache
\* hit leaves the store as it is (same entries, same expiries); and the
\* store changes only by the put of one request, under that request's key,
\* after it missed and computed its payload from the provider, and which
\* has put nothing before.
C18_OnlyPutsChangeStore ==
  [][ /\ \A k \in CacheKeys : kv[k] # NoEntry => kv'[k] # NoEntry
      /\ (\E r \in Slots : req[r].pc = "checkCache" /\ req'[r].source = "cache") => kv' = kv
      /\ kv' # kv =>
           \E r \in Slots :
             /\ req[r].pc = "awaitPut" /\ req'[r].pc = "done"
             /\ req'[r].source = "fresh" /\ req'[r].response.status = 200
             /\ ~req[r].validAtCheck /\ req[r].fetches >= 1
             /\ req[r].stored = NoEntry
             /\ kv' = [kv EXCEPT ![KeyOf(r)] = req[r].pending]
    ]_vars

\* A request has just been served from the cache, some time after the put;
\* the entry it was served is in the store as it was read.
C18_Witness ==
  \E r \in Slots :
    /\ Finished(r) /\ Cacheable(r) /\ req[r].source = "cache"
    /\ req[r].validAtCheck
    /\ kv[KeyOf(r)] = req[r].cached
    /\ now > req[r].cached.expires_at_ms - TtlMs


\* C19: with CONFIG_URL set, a request under /api/ waits for the
\* configuration before anything else: while it waits it has read no entry
\* and matched no path; and when the configuration fetch fails the request
\* ends with no response at all (no payload, no 404), having read no entry,
\* fetched nothing from the provider and put nothing, also when the store
\* holds an unexpired entry for it.
C19_ConfigFetchedFirst ==
  \A r \in Slots :
    (env.CONFIG_URL /\ StartsWithApi(req[r].path)) =>
      /\ req[r].pc = "awaitConfig" =>
           /\ req[r].cached = NoEntry /\ req[r].response = NoResponse
           /\ req[r].fetches = 0
      /\ (Finished(r) /\ req[r].failedAt = "config") =>
           /\ req[r].response = NoResponse /\ req[r].source = ""
           /\ req[r].cached = NoEntry /\ ~req[r].validAtCheck
           /\ req[r].fetches = 0
           /\ req[r].stored = NoEntry /\ req[r].pending = NoEntry
      /\ (Finished(r) /\ req[r].response.status = 404) => req[r].failedAt = ""

\* The configuration fetch fails while the store holds an unexpired
\* standings entry, which stays as it is.
C19_Witness ==
  \E r \in Slots :
    /\ env.CONFIG_URL /\ Finished(r) /\ req[r].path = "/api/standings"
    /\ req[r].failedAt = "config"
    /\ req[r].promised # NoEntry
    /\ kv[standingsCacheKey] = req[r].promised
    /\ now < kv[standingsCacheKey].expires_at_ms

=============================================================================
